---- MODULE Spec2Model ----
(***************************************************************************)
(* State-machine model of trubax/criptx46:                                 *)
(*   - the MessageItem chat-bubble component (src/unnamed/part_000): its   *)
(*     useState cells, the popups it renders, its click handlers, the      *)
(*     document click listener and the two awaited calls (share, delete);  *)
(*   - the useNativeBehavior hook (src/src/hooks/useNativeBehavior.ts):    *)
(*     the touchstart listeners it adds to and removes from the document.  *)
(* React runs every handler to completion and re-renders before the next   *)
(* DOM event is dispatched, so one handler (or one continuation after an   *)
(* await) is one atomic action.                                            *)
(***************************************************************************)
EXTENDS Integers, Sequences, FiniteSets

VARIABLES
    props,              \* MessageItemProps plus navigator.share availability
    showMenu,           \* useState(false)
    isDeleting,         \* useState(false)
    showDeleteOptions,  \* useState(false)
    menuPosition,       \* useState('bottom')
    calls,              \* every onDelete invocation made so far, with its promise state
    pendingShare,       \* handleShare calls suspended at their await
    event,              \* the DOM event / promise continuation handled by the last step
    mounted,            \* components using useNativeBehavior that React has mounted
    listeners,          \* touchstart listeners on document (one handleGesture per effect run)
    touchLog            \* touchstart events dispatched so far, with defaultPrevented

vars == <<props, showMenu, isDeleting, showDeleteOptions, menuPosition,
          calls, pendingShare, event, mounted, listeners, touchLog>>

itemVars == <<props, showMenu, isDeleting, showDeleteOptions, menuPosition,
              calls, pendingShare, event>>

hookVars == <<mounted, listeners, touchLog>>

----------------------------------------------------------------------------
(* Bounds *)

MaxCalls == 2        \* onDelete invocations per behaviour
MaxShares == 1       \* handleShare calls suspended at once
MaxComponents == 3   \* components that use useNativeBehavior
MaxTouches == 3      \* touch points of one touchstart event
MaxEvents == 2       \* touchstart events per behaviour

(* Program constant: spaceBelow < 200 puts the menu on top. *)
MenuSpaceThreshold == 200

MessageIds == {"m1", "m2"}
Texts == {"", "ciao"}
MediaUrls == {"", "https://cdn/x.jpg"}      \* "" stands for undefined (both falsy)
SpaceBelow == {MenuSpaceThreshold - 1, MenuSpaceThreshold}
Targets == {"outside", "container", "menu"}

DefaultDeleteError == "Errore durante l'eliminazione del messaggio"
ShareCopiedText == "Messaggio copiato negli appunti!"

(* What the promise returned by onDelete can settle with.  A rejection      *)
(* carries any value: an Error with a message, an Error with an empty       *)
(* message, or undefined/null (Promise.reject()).                           *)
Rejections == {[kind |-> "Error", message |-> "permission-denied"],
               [kind |-> "Error", message |-> ""],
               [kind |-> "undefined", message |-> ""]}
Resolved == [kind |-> "resolved", message |-> ""]
Outcomes == {Resolved} \cup Rejections

----------------------------------------------------------------------------
(* Rendering (the JSX returned by MessageItem) *)

Truthy(s) == s # ""

canDeleteForEveryone == props.isMe \/ props.isAdmin \/ props.isGroupCreator

\* a bug that would render the menu for text messages only
MenuRenderedTextOnly ==
    showMenu /\ ~showDeleteOptions /\ Truthy(props.text)

MenuRendered ==
    showMenu /\ ~showDeleteOptions /\ (Truthy(props.text) \/ Truthy(props.mediaUrl))

DeleteOptionsRendered == showDeleteOptions

\* React attaches menuRef.current while the action menu is mounted and resets
\* it to null when the menu unmounts; the delete-options popup carries no ref.
menuRefAttached == MenuRendered

\* a bug that would drop disabled={isDeleting}
ButtonAlwaysEnabled == TRUE

\* disabled={isDeleting} on both delete buttons
ButtonEnabled == ~isDeleting

\* a bug that would show 'Elimina per tutti' to everybody
DeleteForEveryoneUnguarded == DeleteOptionsRendered

DeleteForEveryoneRendered == DeleteOptionsRendered /\ canDeleteForEveryone

----------------------------------------------------------------------------
(* Events *)

NoEvent ==
    [type |-> "none", target |-> "-", deleteForEveryone |-> FALSE, spaceBelow |-> 0,
     outcome |-> "-", alerts |-> <<>>, propagated |-> FALSE, invoked |-> FALSE]

Ev(type) == [NoEvent EXCEPT !.type = type]

Pending == {i \in 1..Len(calls) : calls[i].state = "pending"}

----------------------------------------------------------------------------
Init ==
    /\ props \in [id : MessageIds, text : Texts, mediaUrl : MediaUrls,
                  isMe : BOOLEAN, isAdmin : BOOLEAN, isGroupCreator : BOOLEAN,
                  onDelete : BOOLEAN, navigatorShare : BOOLEAN]
    /\ showMenu = FALSE
    /\ isDeleting = FALSE
    /\ showDeleteOptions = FALSE
    /\ menuPosition = "bottom"
    /\ calls = <<>>
    /\ pendingShare = 0
    /\ event = NoEvent
    /\ mounted = {}
    /\ listeners = {}
    /\ touchLog = <<>>

----------------------------------------------------------------------------
(* MessageItem handlers *)

calculateMenuPosition(spaceBelow) ==
    IF spaceBelow < MenuSpaceThreshold THEN "top" ELSE "bottom"

\* a bug that would toggle the menu under the open delete options
handleMessageClickUnguarded ==
    \E spaceBelow \in SpaceBelow :
        /\ event' = [Ev("bubbleClick") EXCEPT !.spaceBelow = spaceBelow]
        /\ menuPosition' = calculateMenuPosition(spaceBelow)
        /\ showMenu' = ~showMenu
        /\ UNCHANGED <<props, isDeleting, showDeleteOptions, calls, pendingShare>>
        /\ UNCHANGED hookVars

\* onClick of the message bubble
handleMessageClick ==
    \E spaceBelow \in SpaceBelow :
        /\ event' = [Ev("bubbleClick") EXCEPT !.spaceBelow = spaceBelow]
        /\ IF ~showDeleteOptions
           THEN /\ menuPosition' = calculateMenuPosition(spaceBelow)
                /\ showMenu' = ~showMenu
           ELSE UNCHANGED <<menuPosition, showMenu>>
        /\ UNCHANGED <<props, isDeleting, showDeleteOptions, calls, pendingShare>>
        /\ UNCHANGED hookVars

\* onClick of 'Copia' (rendered inside the action menu when text is non-empty);
\* navigator.clipboard.writeText is not awaited
handleCopy ==
    /\ MenuRendered /\ Truthy(props.text)
    /\ event' = Ev("copy")
    /\ showMenu' = FALSE
    /\ UNCHANGED <<props, isDeleting, showDeleteOptions, menuPosition, calls, pendingShare>>
    /\ UNCHANGED hookVars

\* onClick of 'Condividi': handleShare up to its await (navigator.share or
\* navigator.clipboard.writeText, whichever the browser offers)
handleShare ==
    /\ MenuRendered /\ Truthy(props.text)
    /\ pendingShare < MaxShares
    /\ event' = Ev("share")
    /\ pendingShare' = pendingShare + 1
    /\ UNCHANGED <<props, showMenu, isDeleting, showDeleteOptions, menuPosition, calls>>
    /\ UNCHANGED hookVars

\* handleShare after its await: on success the clipboard branch alerts and
\* both branches close the menu; a rejection is only logged
shareSettled ==
    \E ok \in BOOLEAN :
        /\ pendingShare > 0
        /\ pendingShare' = pendingShare - 1
        /\ event' = [Ev("shareSettled") EXCEPT
                        !.outcome = IF ok THEN "resolved" ELSE "rejected",
                        !.alerts = IF ok /\ ~props.navigatorShare
                                   THEN <<ShareCopiedText>> ELSE <<>>]
        /\ showMenu' = IF ok THEN FALSE ELSE showMenu
        /\ UNCHANGED <<props, isDeleting, showDeleteOptions, menuPosition, calls>>
        /\ UNCHANGED hookVars

\* a bug that would open the delete options without closing the menu
eliminaClickKeepingMenu ==
    /\ MenuRendered
    /\ event' = Ev("elimina")
    /\ showDeleteOptions' = TRUE
    /\ UNCHANGED <<props, showMenu, isDeleting, menuPosition, calls, pendingShare>>
    /\ UNCHANGED hookVars

\* onClick of 'Elimina' in the action menu
eliminaClick ==
    /\ MenuRendered
    /\ event' = Ev("elimina")
    /\ showDeleteOptions' = TRUE
    /\ showMenu' = FALSE
    /\ UNCHANGED <<props, isDeleting, menuPosition, calls, pendingShare>>
    /\ UNCHANGED hookVars

\* a bug that would pass a constant flag instead of the clicked button's
onDeleteArgsFlagDropped(deleteForEveryone) ==
    [messageId |-> props.id, deleteForEveryone |-> FALSE]

\* the arguments handleDelete passes to onDelete
onDeleteArgs(deleteForEveryone) ==
    [messageId |-> props.id, deleteForEveryone |-> deleteForEveryone]

\* handleDelete up to its await
handleDelete(deleteForEveryone) ==
    IF ~props.onDelete
    THEN /\ event' = [Ev("deleteClick") EXCEPT !.deleteForEveryone = deleteForEveryone]
         /\ UNCHANGED <<isDeleting, calls>>
    ELSE /\ event' = [Ev("deleteClick") EXCEPT !.deleteForEveryone = deleteForEveryone,
                                                !.invoked = TRUE]
         /\ isDeleting' = TRUE
         /\ calls' = Append(calls, [args |-> onDeleteArgs(deleteForEveryone),
                                    state |-> "pending"])

\* onClick of 'Elimina per me' (FALSE) or 'Elimina per tutti' (TRUE); a
\* disabled button dispatches no click
deleteButtonClick ==
    \E deleteForEveryone \in BOOLEAN :
        /\ DeleteOptionsRendered
        /\ deleteForEveryone => DeleteForEveryoneRendered
        /\ ButtonEnabled
        /\ props.onDelete => Len(calls) < MaxCalls
        /\ handleDelete(deleteForEveryone)
        /\ UNCHANGED <<props, showMenu, showDeleteOptions, menuPosition, pendingShare>>
        /\ UNCHANGED hookVars

\* alert(error.message || default) in the catch block: reading .message of
\* undefined/null throws a TypeError before alert is called
catchAlerts(error) ==
    IF error.kind = "undefined" THEN <<>>
    ELSE IF Truthy(error.message) THEN <<error.message>> ELSE <<DefaultDeleteError>>

catchThrows(error) == error.kind = "undefined"

\* a bug that would reset isDeleting in the try block instead of in finally
onDeleteSettledWithoutFinally ==
    \E i \in Pending, outcome \in Outcomes :
        /\ calls' = [calls EXCEPT ![i].state =
                        IF outcome = Resolved THEN "resolved" ELSE "rejected"]
        /\ IF outcome = Resolved
           THEN /\ showDeleteOptions' = FALSE
                /\ showMenu' = FALSE
                /\ isDeleting' = FALSE
                /\ event' = [Ev("deleteSettled") EXCEPT !.outcome = "resolved"]
           ELSE /\ UNCHANGED <<showDeleteOptions, showMenu, isDeleting>>
                /\ event' = [Ev("deleteSettled") EXCEPT
                                !.outcome = "rejected",
                                !.alerts = catchAlerts(outcome),
                                !.propagated = catchThrows(outcome)]
        /\ UNCHANGED <<props, menuPosition, pendingShare>>
        /\ UNCHANGED hookVars

\* handleDelete after its await: the rest of the try block, catch, finally
onDeleteSettled ==
    \E i \in Pending, outcome \in Outcomes :
        /\ calls' = [calls EXCEPT ![i].state =
                        IF outcome = Resolved THEN "resolved" ELSE "rejected"]
        /\ IF outcome = Resolved
           THEN /\ showDeleteOptions' = FALSE
                /\ showMenu' = FALSE
                /\ event' = [Ev("deleteSettled") EXCEPT !.outcome = "resolved"]
           ELSE /\ UNCHANGED <<showDeleteOptions, showMenu>>
                /\ event' = [Ev("deleteSettled") EXCEPT
                                !.outcome = "rejected",
                                !.alerts = catchAlerts(outcome),
                                !.propagated = catchThrows(outcome)]
        /\ isDeleting' = FALSE
        /\ UNCHANGED <<props, menuPosition, pendingShare>>
        /\ UNCHANGED hookVars

\* the useEffect keeps the document click listener registered exactly while
\* a popup flag is set
clickListenerAttached == showMenu \/ showDeleteOptions

\* does handleClickOutside(event) close the popups?
handleClickOutside(target) ==
    /\ showMenu \/ showDeleteOptions
    /\ target = "outside"                       \* isClickOutsideMessage
    /\ menuRefAttached /\ target # "menu"       \* isClickOutsideMenu

\* The clicks handled by the actions above bubble to document as well, but
\* their targets sit inside the message container, or sit in an action menu
\* that the handler has just unmounted (menuRef.current is null by then), so
\* handleClickOutside changes nothing for them.
\* A click that reaches document without hitting one of the buttons above:
\* outside the message container, on the container itself, or on the padding
\* of the action menu
documentClick ==
    \E target \in Targets :
        /\ target = "menu" => MenuRendered
        /\ event' = [Ev("documentClick") EXCEPT !.target = target]
        /\ IF clickListenerAttached /\ handleClickOutside(target)
           THEN /\ showMenu' = FALSE
                /\ showDeleteOptions' = FALSE
           ELSE UNCHANGED <<showMenu, showDeleteOptions>>
        /\ UNCHANGED <<props, isDeleting, menuPosition, calls, pendingShare>>
        /\ UNCHANGED hookVars

Next ==
    \/ handleMessageClick
    \/ handleCopy
    \/ handleShare
    \/ shareSettled
    \/ eliminaClick
    \/ deleteButtonClick
    \/ onDeleteSettled
    \/ documentClick

Spec == Init /\ [][Next]_vars

----------------------------------------------------------------------------
(* useNativeBehavior *)

Components == 1..MaxComponents

\* a bug that would block single-touch gestures too
handleGestureAnyTouch(touches) == touches > 0

\* handleGesture: does this listener call e.preventDefault()?
handleGesture(touches) == touches > 1

\* the effect body: document.addEventListener('touchstart', handleGesture, {passive: false})
mount ==
    \E c \in Components \ mounted :
        /\ mounted' = mounted \cup {c}
        /\ listeners' = listeners \cup {c}
        /\ UNCHANGED touchLog
        /\ UNCHANGED itemVars

\* a bug that would leave the listener registered after the unmount
unmountLeavingListener ==
    \E c \in mounted :
        /\ mounted' = mounted \ {c}
        /\ UNCHANGED <<listeners, touchLog>>
        /\ UNCHANGED itemVars

\* the effect cleanup: document.removeEventListener('touchstart', handleGesture)
unmount ==
    \E c \in mounted :
        /\ mounted' = mounted \ {c}
        /\ listeners' = listeners \ {c}
        /\ UNCHANGED touchLog
        /\ UNCHANGED itemVars

\* the browser dispatches a touchstart to every registered listener
touchStart ==
    \E touches \in 1..MaxTouches :
        /\ Len(touchLog) < MaxEvents
        /\ touchLog' = Append(touchLog,
                [touches |-> touches,
                 mounted |-> mounted # {},
                 defaultPrevented |-> \E c \in listeners : handleGesture(touches)])
        /\ UNCHANGED <<mounted, listeners>>
        /\ UNCHANGED itemVars

InitNative ==
    /\ Init
    /\ props = [id |-> "m1", text |-> "ciao", mediaUrl |-> "", isMe |-> TRUE,
                isAdmin |-> FALSE, isGroupCreator |-> FALSE, onDelete |-> TRUE,
                navigatorShare |-> FALSE]

NextNative == mount \/ unmount \/ touchStart

SpecNative == InitNative /\ [][NextNative]_vars

----------------------------------------------------------------------------
(* Properties *)

IsEvent(type) == event'.type = type

\* C1 (as claimed): whenever the action menu or the delete-options popup is
\* open, a document click outside the message container and outside the popup
\* leaves both showMenu and showDeleteOptions false, for the delete-options
\* popup too.
C1_OutsideClickClosesBothPopups ==
    [][(IsEvent("documentClick") /\ event'.target = "outside"
          /\ (MenuRendered \/ DeleteOptionsRendered))
       => (~showMenu' /\ ~showDeleteOptions')]_vars

\* C2: while an onDelete call is pending the delete buttons are disabled
\* (isDeleting is true), and at most one onDelete call is outstanding.
C2_AtMostOneOutstandingDelete ==
    /\ Cardinality(Pending) <= 1
    /\ Pending # {} => isDeleting

C2_Witness ==
    /\ Len(calls) = 2 /\ Pending = {2}
    /\ event.type = "documentClick" /\ event.target = "outside"

\* C3 (as claimed): every rejection of onDelete is surfaced through exactly one
\* alert, is not propagated, causes no further onDelete call, leaves showMenu
\* and showDeleteOptions as they were and resets isDeleting.
C3_RejectionAlertsExactlyOnce ==
    [][(IsEvent("deleteSettled") /\ event'.outcome = "rejected")
       => /\ Len(event'.alerts) = 1
          /\ ~event'.propagated
          /\ Len(calls') = Len(calls)
          /\ showMenu' = showMenu /\ showDeleteOptions' = showDeleteOptions
          /\ ~isDeleting']_vars

\* C4: a click on an enabled delete button invokes onDelete exactly once, with
\* this message's id and the clicked button's flag; without an onDelete prop
\* the click invokes nothing and leaves isDeleting, showMenu and
\* showDeleteOptions unchanged.
C4_DeleteIsPassThrough ==
    [][IsEvent("deleteClick")
       => IF props.onDelete
          THEN calls' = Append(calls,
                   [args |-> [messageId |-> props.id,
                              deleteForEveryone |-> event'.deleteForEveryone],
                    state |-> "pending"])
          ELSE /\ calls' = calls
               /\ isDeleting' = isDeleting
               /\ showMenu' = showMenu
               /\ showDeleteOptions' = showDeleteOptions]_vars

C4_Witness ==
    /\ event.type = "deleteClick" /\ event.deleteForEveryone
    /\ Len(calls) = 2
    /\ calls[2] = [args |-> [messageId |-> "m2", deleteForEveryone |-> TRUE],
                   state |-> "pending"]

\* C5: a touchstart is default-prevented exactly when some component using the
\* hook is mounted and the event has more than one touch point; single touches
\* and touches after the last unmount are never prevented.
C5_MultiTouchPreventedWhileMounted ==
    \A i \in 1..Len(touchLog) :
        touchLog[i].defaultPrevented
            <=> (touchLog[i].mounted /\ touchLog[i].touches > 1)

C5_Witness ==
    /\ Len(touchLog) = 2
    /\ touchLog[1].touches > 1 /\ touchLog[1].defaultPrevented
    /\ touchLog[2].touches > 1 /\ ~touchLog[2].mounted /\ ~touchLog[2].defaultPrevented

\* C6 (as claimed): for every combination of props, a bubble click with both
\* popups closed renders the action menu, and a click on 'Elimina' renders the
\* delete-options popup.
C6_MenuAppearsForEveryMessage ==
    [][/\ (IsEvent("bubbleClick") /\ ~showMenu /\ ~showDeleteOptions) => MenuRendered'
       /\ IsEvent("elimina") => DeleteOptionsRendered']_vars

\* C6 (amended): a bubble click with both popups closed renders the action
\* menu exactly when the message has a non-empty text or a mediaUrl, and a
\* click on 'Elimina' replaces the menu by the delete-options popup.
C6_MenuAppearsForMessagesWithContent ==
    [][/\ (IsEvent("bubbleClick") /\ ~showMenu /\ ~showDeleteOptions)
            => (MenuRendered' <=> (Truthy(props.text) \/ Truthy(props.mediaUrl)))
       /\ IsEvent("elimina") => (DeleteOptionsRendered' /\ ~MenuRendered')]_vars

C6_Witness ==
    /\ event.type = "elimina" /\ DeleteOptionsRendered
    /\ ~Truthy(props.text) /\ Truthy(props.mediaUrl)

\* C7: a bubble click flips showMenu and recomputes menuPosition when
\* showDeleteOptions is false, and changes none of showMenu, showDeleteOptions
\* and menuPosition when it is true.
C7_BubbleClickToggles ==
    [][IsEvent("bubbleClick")
       => IF ~showDeleteOptions
          THEN /\ showMenu' = ~showMenu
               /\ menuPosition' = (IF event'.spaceBelow >= MenuSpaceThreshold
                                   THEN "bottom" ELSE "top")
               /\ showDeleteOptions' = showDeleteOptions
          ELSE /\ showMenu' = showMenu
               /\ showDeleteOptions' = showDeleteOptions
               /\ menuPosition' = menuPosition]_vars

C7_Witness ==
    /\ event.type = "bubbleClick" /\ event.spaceBelow >= MenuSpaceThreshold
    /\ showDeleteOptions /\ menuPosition = "top"

\* C8: showMenu and showDeleteOptions are never both true.
C8_PopupsMutuallyExclusive == ~(showMenu /\ showDeleteOptions)

C8_Witness ==
    /\ event.type = "shareSettled" /\ event.outcome = "resolved"
    /\ showDeleteOptions /\ Pending # {}

\* C9: onDelete is invoked with deleteForEveryone = TRUE only when isMe, isAdmin
\* or isGroupCreator holds.
C9_DeleteForEveryoneOnlyIfAllowed ==
    \A i \in 1..Len(calls) :
        calls[i].args.deleteForEveryone
            => (props.isMe \/ props.isAdmin \/ props.isGroupCreator)

C9_Witness ==
    /\ ~props.isMe /\ ~props.isAdmin /\ ~props.isGroupCreator
    /\ Len(calls) = 2
    /\ \A i \in 1..2 : ~calls[i].args.deleteForEveryone

\* C10: when a pending onDelete call settles isDeleting becomes false, and
\* when it resolved showMenu and showDeleteOptions are false as well.
C10_SettleResetsState ==
    [][IsEvent("deleteSettled")
       => /\ ~isDeleting'
          /\ event'.outcome = "resolved" => (~showMenu' /\ ~showDeleteOptions')]_vars

C10_Witness ==
    /\ event.type = "deleteSettled" /\ event.outcome = "resolved"
    /\ Len(calls) = 2 /\ calls[1].state = "rejected"
    /\ ~isDeleting /\ ~showMenu /\ ~showDeleteOptions

====
